---- MODULE Spec2Model ----
(***************************************************************************)
(* A model of unlimited-pi.py: calculate_pi(n_digits), the Gauss-Legendre  *)
(* iteration on decimal.Decimal values, and the calls made on it.          *)
(*                                                                         *)
(* decimal.Decimal is modelled as Python's decimal module defines it: a    *)
(* value is a sign, a coefficient (a string of decimal digits, most        *)
(* significant first, as Decimal._int) and an exponent; every arithmetic   *)
(* result is rounded half-even to the precision of the context of the      *)
(* calling thread.  The exponent limits Emin/Emax (+-999999) are far from  *)
(* every exponent the program produces and are left out.                   *)
(***************************************************************************)
EXTENDS Integers, Sequences, FiniteSets, TLC

(***************************************************************************)
(* Bounds of the model.                                                    *)
(***************************************************************************)
\* the calculation is run for every digit count 0..MaxN
MaxN == 6
\* the largest number of calls one thread makes
MaxCalls == 2

(***************************************************************************)
(* Constants of the program.                                               *)
(***************************************************************************)
MAX_DIGITS == 10000
\* calculation_precision = n_digits + 5
GuardDigits == 5
\* decimal.DefaultContext.prec, the precision of a thread's context before
\* calculate_pi first sets it
DefaultPrec == 28

(***************************************************************************)
(* Natural numbers as digit strings (the coefficient of a Decimal, most    *)
(* significant digit first).  A digit string has no leading zero, except   *)
(* <<0>> itself.  The arithmetic is done on limbs of three digits, least   *)
(* significant limb first.                                                 *)
(***************************************************************************)
Zeros(k) == [i \in 1..k |-> 0]

\* s without its leading zeros
Strip(s) ==
  IF \A i \in 1..Len(s) : s[i] = 0 THEN <<0>>
  ELSE SubSeq(s, CHOOSE i \in 1..Len(s) :
                   s[i] # 0 /\ \A j \in 1..(i - 1) : s[j] = 0, Len(s))

IsZeroN(x) == x = <<0>>

\* x * 10^k
NShift(x, k) == IF IsZeroN(x) THEN x ELSE x \o Zeros(k)

\* -1, 0, 1 as x < y, x = y, x > y
NCmp(x, y) ==
  IF Len(x) < Len(y) THEN -1
  ELSE IF Len(x) > Len(y) THEN 1
  ELSE IF x = y THEN 0
  ELSE LET i == CHOOSE k \in 1..Len(x) :
                  x[k] # y[k] /\ \A j \in 1..(k - 1) : x[j] = y[j]
       IN  IF x[i] < y[i] THEN -1 ELSE 1

\* the digit of s at position i, 0 left of the string
DigitAt(s, i) == IF i >= 1 THEN s[i] ELSE 0

\* the m least significant limbs of s
ToLimbs(s, m) ==
  SubSeq([j \in 1..m |->
            LET p == Len(s) - 3 * (j - 1)
            IN  DigitAt(s, p) + 10 * DigitAt(s, p - 1) + 100 * DigitAt(s, p - 2)],
         1, m)

LimbCount(s) == (Len(s) + 2) \div 3

\* the limb of u at position i, 0 outside u
LimbAt(u, i) == IF i >= 1 /\ i <= Len(u) THEN u[i] ELSE 0

\* the digit string of limbs, each in 0..999
FromLimbs(l) ==
  Strip([i \in 1..(3 * Len(l)) |->
           LET j == Len(l) - ((i - 1) \div 3)
               d == (i - 1) % 3
           IN  IF d = 0 THEN l[j] \div 100
               ELSE IF d = 1 THEN (l[j] \div 10) % 10
               ELSE l[j] % 10])

\* s, last element first
Reverse(s) == SubSeq([i \in 1..Len(s) |-> s[Len(s) + 1 - i]], 1, Len(s))

\* the one element of a singleton set
Only(S) == CHOOSE v \in S : TRUE

\* one limb brought into 0..999: st = <<limbs so far, carry>>, the carry (or
\* borrow, negative) passed upwards
CarryStep(st, limb) ==
  Only({ <<Append(st[1], s % 1000), (s - (s % 1000)) \div 1000>> :
           s \in {limb + st[2]} })

\* the state reached from st by CarryStep over the limbs lo..hi of x
RECURSIVE CarryFold(_, _, _, _)
CarryFold(st, x, lo, hi) ==
  IF lo > hi THEN st
  ELSE IF lo = hi THEN CarryStep(st, x[lo])
  ELSE Only({ CarryFold(s1, x, ((lo + hi) \div 2) + 1, hi) :
                s1 \in {CarryFold(st, x, lo, (lo + hi) \div 2)} })

\* <<the limbs of v brought into 0..999, the carry out of the last limb>>
CarryOut(v) ==
  Only({ CarryFold(<< <<>>, 0 >>, w, 1, Len(w)) :
           w \in {SubSeq(v, 1, Len(v))} })

Carry(v) == CarryOut(v)[1]

NAdd(x, y) ==
  Only({ FromLimbs(Carry([j \in 1..Len(a) |-> a[j] + b[j]])) :
           a \in {ToLimbs(x, LimbCount(IF Len(x) > Len(y) THEN x ELSE y) + 1)},
           b \in {ToLimbs(y, LimbCount(IF Len(x) > Len(y) THEN x ELSE y) + 1)} })

\* x - y for x >= y
NSub(x, y) ==
  Only({ FromLimbs(Carry([j \in 1..Len(a) |-> a[j] - b[j]])) :
           a \in {ToLimbs(x, LimbCount(x))},
           b \in {ToLimbs(y, LimbCount(x))} })

\* sum of a[i] * b[k + 1 - i] for i in lo..hi
RECURSIVE Conv(_, _, _, _, _)
Conv(a, b, k, lo, hi) ==
  IF lo > hi THEN 0
  ELSE IF lo = hi THEN a[lo] * b[k + 1 - lo]
  ELSE Conv(a, b, k, lo, (lo + hi) \div 2)
         + Conv(a, b, k, ((lo + hi) \div 2) + 1, hi)

NMul(x, y) ==
  Only({ FromLimbs(Carry([k \in 1..(Len(a) + Len(b)) |->
                            Conv(a, b, k,
                                 IF k - Len(b) + 1 > 1 THEN k - Len(b) + 1 ELSE 1,
                                 IF k < Len(a) THEN k ELSE Len(a))])) :
           a \in {ToLimbs(x, LimbCount(x))},
           b \in {ToLimbs(y, LimbCount(y))} })

\* the largest q <= q0 with q * v <= r, for limbs r and v: <<q, r - q * v>>
RECURSIVE DivTry(_, _, _)
DivTry(r, v, q) ==
  Only({ IF c[2] < 0 THEN DivTry(r, v, q - 1) ELSE <<q, c[1]>> :
           c \in {CarryOut([i \in 1..Len(r) |-> r[i] - q * LimbAt(v, i)])} })

\* one step of long division by limbs: st = <<quotient limbs so far (most
\* significant first), remainder>>; the quotient limb is estimated from the
\* three leading limbs of the remainder and the two leading limbs of the
\* divisor v (never too low, at most 2 too high)
DivStep(st, limb, v) ==
  Only({ Only({ <<Append(st[1], t[1]), SubSeq(t[2], 1, Len(v))>> :
                  t \in {DivTry(r, v,
                          LET num == r[Len(v) + 1] * 1000000 + r[Len(v)] * 1000
                                       + LimbAt(r, Len(v) - 1)
                              den == v[Len(v)] * 1000 + LimbAt(v, Len(v) - 1)
                              q0  == (num + 1) \div den
                          IN  IF q0 > 999 THEN 999 ELSE q0)} }) :
           r \in {<<limb>> \o st[2]} })

\* the state reached from st by DivStep over the limbs lo..hi of x
RECURSIVE DivFold(_, _, _, _, _)
DivFold(st, x, v, lo, hi) ==
  IF lo > hi THEN st
  ELSE IF lo = hi THEN DivStep(st, x[lo], v)
  ELSE Only({ DivFold(s1, x, v, ((lo + hi) \div 2) + 1, hi) :
                s1 \in {DivFold(st, x, v, lo, (lo + hi) \div 2)} })

\* divmod(x, y): <<quotient, remainder>>, y > 0; both are first multiplied by
\* 10^j so that the leading limb of the divisor has three digits
NDivMod(x, y) ==
  Only({ Only({ << FromLimbs(Reverse(res[1])),
                   IF \A i \in 1..Len(res[2]) : res[2][i] = 0 THEN <<0>>
                   ELSE Only({ SubSeq(d, 1, Len(d) - j) :
                                 d \in {FromLimbs(res[2])} }) >> :
                  res \in {DivFold(<< <<>>, SubSeq(Zeros(Len(v)), 1, Len(v)) >>,
                                   xb, v, 1, Len(xb))} }) :
           j \in {(3 - (Len(y) % 3)) % 3},
           v \in {ToLimbs(y \o Zeros((3 - (Len(y) % 3)) % 3),
                          LimbCount(y \o Zeros((3 - (Len(y) % 3)) % 3)))},
           xb \in {Reverse(ToLimbs(x \o Zeros((3 - (Len(y) % 3)) % 3),
                                   LimbCount(x \o Zeros((3 - (Len(y) % 3)) % 3))))} })

\* floor(sqrt(p)) for p < 10^6
Isqrt6(p) == CHOOSE q \in 0..999 : q * q <= p /\ (q + 1) * (q + 1) > p

\* the largest q <= q0 with (1000 * 2 * root + q) * q <= r, for limbs r and
\* w = 2 * root: <<q, r - (1000 * 2 * root + q) * q>>
RECURSIVE SqrtTry(_, _, _)
SqrtTry(r, w, q) ==
  Only({ IF c[2] < 0 THEN SqrtTry(r, w, q - 1) ELSE <<q, c[1]>> :
           c \in {CarryOut([i \in 1..Len(r) |->
                    r[i] - q * (IF i = 1 THEN q ELSE LimbAt(w, i - 1))])} })

\* one step of the square root by pairs of limbs: st = <<root limbs so far,
\* remainder>>, pair = 1000 * (first limb) + (second limb); the root limb is
\* estimated from the leading limbs of the remainder and of the root (never
\* too low)
SqrtStep(st, pair) ==
  IF Len(st[1]) = 0
  THEN Only({ << <<q>>, <<(pair - q * q) % 1000, (pair - q * q) \div 1000>> >> :
                q \in {Isqrt6(pair)} })
  ELSE Only({ Only({ << <<t[1]>> \o st[1], SubSeq(t[2], 1, L + 2) >> :
                       t \in {SqrtTry(r, w,
                               LET num == LimbAt(r, L + 3) * 1000000000
                                            + r[L + 2] * 1000000
                                            + r[L + 1] * 1000 + r[L]
                                   den == st[1][L] * 1000 + LimbAt(st[1], L - 1)
                                   q0  == (num + 1) \div (2 * den)
                               IN  IF q0 > 999 THEN 999 ELSE q0)} }) :
                L \in {Len(st[1])},
                r \in {<<pair % 1000, pair \div 1000>> \o st[2]},
                w \in {SubSeq([i \in 1..Len(st[1]) |-> 2 * st[1][i]],
                              1, Len(st[1]))} })

\* the state reached from st by SqrtStep over the pairs lo..hi of x
RECURSIVE SqrtFold(_, _, _, _)
SqrtFold(st, x, lo, hi) ==
  IF lo > hi THEN st
  ELSE IF lo = hi THEN SqrtStep(st, x[lo])
  ELSE Only({ SqrtFold(s1, x, ((lo + hi) \div 2) + 1, hi) :
                s1 \in {SqrtFold(st, x, lo, (lo + hi) \div 2)} })

\* the j with len + 2 * j = 0 or 5 modulo 6: x * 10^(2j) has a leading pair
\* of limbs of five or six digits
SqrtPad(len) ==
  IF len % 6 \in {0, 5} THEN 0 ELSE IF len % 6 \in {1, 2} THEN 2 ELSE 1

\* <<floor(sqrt(x)), r>>, r = 0 exactly when x is a square; the root is that
\* of x * 10^(2j) without its last j digits
NIsqrt(x) ==
  IF IsZeroN(x) THEN << <<0>>, <<0>> >>
  ELSE
  Only({ Only({ << Only({ SubSeq(d, 1, Len(d) - j) :
                            d \in {FromLimbs(res[1])} }),
                   FromLimbs(res[2]) >> :
                  res \in {SqrtFold(<< <<>>, <<>> >>, pairs, 1, Len(pairs))} }) :
           j \in {SqrtPad(Len(x))},
           pairs \in {Only({ SubSeq([k \in 1..(Len(xl) \div 2) |->
                                       xl[Len(xl) - 2 * k + 2] * 1000
                                         + xl[Len(xl) - 2 * k + 1]],
                                    1, Len(xl) \div 2) :
                               xl \in {ToLimbs(x \o Zeros(2 * SqrtPad(Len(x))),
                                         2 * ((LimbCount(x \o Zeros(2 * SqrtPad(Len(x)))) + 1)
                                                \div 2))} })} })

RECURSIVE NFromInt(_)
NFromInt(n) == IF n < 10 THEN <<n>> ELSE Append(NFromInt(n \div 10), n % 10)

(***************************************************************************)
(* decimal.Decimal: [sign, coeff, exp] is (-1)^sign * coeff * 10^exp.      *)
(***************************************************************************)
Dec(s, c, e) == [sign |-> s, coeff |-> c, exp |-> e]

\* a local variable that holds no value yet
NoDec == Dec(0, <<>>, 0)

\* decimal.Decimal(n) for an int n >= 0
DecFromInt(n) == Dec(0, NFromInt(n), 0)

IsZeroD(x) == IsZeroN(x.coeff)

IsNegativeD(x) == x.sign = 1 /\ ~IsZeroD(x)

Min(i, j) == IF i < j THEN i ELSE j

\* the digits after position k are exactly one half: 5 0 0 ...
ExactHalf(c, k) ==
  c[k + 1] = 5 /\ \A i \in (k + 2)..Len(c) : c[i] = 0

\* ROUND_HALF_EVEN of the coefficient c to its first k digits: round up?
RoundsUp(c, k) ==
  \/ c[k + 1] > 5
  \/ c[k + 1] = 5 /\ ~ExactHalf(c, k)
  \/ ExactHalf(c, k) /\ c[k] % 2 = 1

\* Decimal._fix: the value rounded (half even) to prec significant digits
Fix(x, prec) ==
  IF Len(x.coeff) <= prec THEN x
  ELSE LET drop == Len(x.coeff) - prec
           keep == SubSeq(x.coeff, 1, prec)
           c1   == IF RoundsUp(x.coeff, prec) THEN NAdd(keep, <<1>>) ELSE keep
       IN  IF Len(c1) > prec
           THEN Dec(x.sign, SubSeq(c1, 1, prec), x.exp + drop + 1)
           ELSE Dec(x.sign, c1, x.exp + drop)

\* Decimal.__neg__ as used by __sub__ (copy_negate)
DecNeg(x) == Dec(1 - x.sign, x.coeff, x.exp)

\* Decimal.__add__
DecAdd(x, y, prec) ==
  LET e  == Min(x.exp, y.exp)
      cx == NShift(x.coeff, x.exp - e)
      cy == NShift(y.coeff, y.exp - e)
      c  == NCmp(cx, cy)
  IN  Fix(IF x.sign = y.sign THEN Dec(x.sign, NAdd(cx, cy), e)
          ELSE IF c = 0 THEN Dec(0, <<0>>, e)
          ELSE IF c > 0 THEN Dec(x.sign, NSub(cx, cy), e)
          ELSE Dec(y.sign, NSub(cy, cx), e), prec)

\* Decimal.__sub__
DecSub(x, y, prec) == DecAdd(x, DecNeg(y), prec)

\* Decimal.__mul__
DecMul(x, y, prec) ==
  Fix(Dec((x.sign + y.sign) % 2, NMul(x.coeff, y.coeff), x.exp + y.exp), prec)

\* the number of zeros c ends in
TrailingZeros(c) ==
  Len(c) - (CHOOSE i \in 0..Len(c) :
              /\ i = 0 \/ c[i] # 0
              /\ \A j \in (i + 1)..Len(c) : c[j] = 0)

\* c without the trailing zeros that can be dropped while the exponent is
\* below ideal (at least one digit stays), and the exponent then
ToIdeal(c, e, ideal) ==
  Only({ <<SubSeq(c, 1, Len(c) - k), e + k>> :
           k \in {IF e >= ideal THEN 0
                  ELSE Min(Min(TrailingZeros(c), ideal - e), Len(c) - 1)} })

\* coefficient with its last digit nudged off 0 and 5, so that the rounding
\* that follows sees an inexact result (n % 5 == 0: n += 1)
Sticky(c) == IF c[Len(c)] % 5 = 0 THEN NAdd(c, <<1>>) ELSE c

\* Decimal.__truediv__ for a divisor that is not zero
DecDiv(x, y, prec) ==
  LET sign == (x.sign + y.sign) % 2
  IN  IF IsZeroD(x) THEN Fix(Dec(sign, <<0>>, x.exp - y.exp), prec)
      ELSE
      LET shift == Len(y.coeff) - Len(x.coeff) + prec + 1
          e     == x.exp - y.exp - shift
          qr    == IF shift >= 0
                   THEN NDivMod(NShift(x.coeff, shift), y.coeff)
                   ELSE NDivMod(x.coeff, NShift(y.coeff, -shift))
          ce    == IF IsZeroN(qr[2])
                   THEN ToIdeal(qr[1], e, x.exp - y.exp)
                   ELSE <<Sticky(qr[1]), e>>
      IN  Fix(Dec(sign, ce[1], ce[2]), prec)

\* floor(e / 2) (op.exp >> 1)
Half(e) == (e - (e % 2)) \div 2

\* Decimal.sqrt for an operand that is not negative
DecSqrt(x, prec) ==
  IF IsZeroD(x) THEN Fix(Dec(x.sign, <<0>>, Half(x.exp)), prec)
  ELSE
  LET odd   == x.exp % 2 = 1
      c0    == IF odd THEN NShift(x.coeff, 1) ELSE x.coeff
      l     == IF odd THEN (Len(x.coeff) \div 2) + 1
               ELSE (Len(x.coeff) + 1) \div 2
      shift == (prec + 1) - l
      qr    == IF shift >= 0 THEN << NShift(c0, 2 * shift), <<0>> >>
               ELSE NDivMod(c0, NShift(<<1>>, 2 * (-shift)))
      e     == Half(x.exp) - shift
      nr    == NIsqrt(qr[1])
      exact == IsZeroN(qr[2]) /\ IsZeroN(nr[2])
      n     == nr[1]
  IN  IF exact
      THEN Fix(Dec(0, IF shift >= 0 THEN SubSeq(n, 1, Len(n) - shift)
                      ELSE NShift(n, -shift), e + shift), prec)
      ELSE Fix(Dec(0, Sticky(n), e), prec)

\* Decimal.__pow__ with the exponent 2 (libmpdec's _mpd_qpow_int: the product is
\* formed at prec + 3 digits and the result then rounded to prec)
DecSquare(x, prec) ==
  IF IsZeroD(x) THEN Dec(0, <<0>>, 0)
  ELSE Fix(Fix(Dec(0, NMul(x.coeff, x.coeff), 2 * x.exp), prec + 3), prec)

\* Decimal.__eq__: equality of the values
DecEq(x, y) ==
  IF IsZeroD(x) \/ IsZeroD(y) THEN IsZeroD(x) /\ IsZeroD(y)
  ELSE LET e == Min(x.exp, y.exp)
       IN  /\ x.sign = y.sign
           /\ NShift(x.coeff, x.exp - e) = NShift(y.coeff, y.exp - e)

\* Decimal.adjusted(): the exponent of the most significant digit
Adjusted(x) == x.exp + Len(x.coeff) - 1

\* quantize(Decimal('1e-n'), rounding=ROUND_DOWN) raises InvalidOperation when
\* the result would have more digits than the context's precision
QuantizeRaises(x, n, prec) ==
  ~IsZeroD(x) /\ Adjusted(x) + n + 1 > prec

\* Decimal.quantize(Decimal('1e-n'), rounding=ROUND_DOWN): exponent -n, the
\* digits below it discarded
Quantize(x, n) ==
  IF IsZeroD(x) THEN Dec(x.sign, <<0>>, -n)
  ELSE IF x.exp >= -n THEN Dec(x.sign, NShift(x.coeff, x.exp + n), -n)
  ELSE LET digits == Len(x.coeff) + x.exp + n
       IN  Dec(x.sign, IF digits <= 0 THEN <<0>>
                       ELSE SubSeq(x.coeff, 1, digits), -n)

DigitChar(d) == <<"0", "1", "2", "3", "4", "5", "6", "7", "8", "9">>[d + 1]

Chars(c) == [i \in 1..Len(c) |-> DigitChar(c[i])]

\* Decimal.__str__ for exp <= 0 and a value of at least 1e-6 (plain notation),
\* as the sequence of its characters
DecStr(x) ==
  LET left == Len(x.coeff) + x.exp
      sgn  == IF x.sign = 1 THEN <<"-">> ELSE <<>>
      int  == IF left > 0 THEN Chars(SubSeq(x.coeff, 1, left)) ELSE <<"0">>
      frac == IF x.exp = 0 THEN <<>>
              ELSE IF left > 0
              THEN <<".">> \o Chars(SubSeq(x.coeff, left + 1, Len(x.coeff)))
              ELSE <<".">> \o Chars(Zeros(-left) \o x.coeff)
  IN  sgn \o int \o frac

(***************************************************************************)
(* The values a caller passes as n_digits.  A float is num / den; a str is *)
(* the sequence of its characters.                                         *)
(***************************************************************************)
IntArg(i) == [kind |-> "int", num |-> i, den |-> 1, text |-> <<>>]

FloatArg(n, d) == [kind |-> "float", num |-> n, den |-> d, text |-> <<>>]

StrArg(s) == [kind |-> "str", num |-> 0, den |-> 1, text |-> s]

NoneArg == [kind |-> "NoneType", num |-> 0, den |-> 1, text |-> <<>>]

\* no argument: the thread is not inside calculate_pi
NoArg == [kind |-> "unset", num |-> 0, den |-> 1, text |-> <<>>]

DigitChars == {"0", "1", "2", "3", "4", "5", "6", "7", "8", "9"}

CharValue(c) == CHOOSE d \in 0..9 : DigitChar(d) = c

RECURSIVE ParseDigits(_)
ParseDigits(s) ==
  IF Len(s) = 0 THEN 0
  ELSE 10 * ParseDigits(SubSeq(s, 1, Len(s) - 1)) + CharValue(s[Len(s)])

IsDigits(s) == Len(s) > 0 /\ \A i \in 1..Len(s) : s[i] \in DigitChars

\* int(x): [exc, v], exc the exception raised ("none": v is the value)
PyInt(x) ==
  IF x.kind = "int" THEN [exc |-> "none", v |-> x.num]
  ELSE IF x.kind = "float"
  THEN [exc |-> "none",
        v   |-> IF x.num >= 0 THEN x.num \div x.den ELSE -((-x.num) \div x.den)]
  ELSE IF x.kind = "str"
  THEN LET signed == Len(x.text) > 0 /\ x.text[1] \in {"-", "+"}
           body   == IF signed THEN Tail(x.text) ELSE x.text
       IN  IF IsDigits(body)
           THEN [exc |-> "none",
                 v   |-> IF signed /\ x.text[1] = "-" THEN -ParseDigits(body)
                         ELSE ParseDigits(body)]
           ELSE [exc |-> "ValueError", v |-> 0]
  ELSE [exc |-> "TypeError", v |-> 0]

\* the two messages calculate_pi raises ValueError with
InvalidInput == "ValueError: Invalid input. Please enter an integer number of digits."

PrecisionLimitExceeded == "ValueError: Calculation limited to MAX_DIGITS decimal places for practical reasons."

\* ValidationError with the limit off by one: n_digits >= MAX_DIGITS raises
ValidationErrorInclusive(x) ==
  LET r == PyInt(x)
  IN  IF r.exc = "TypeError" THEN "TypeError"
      ELSE IF r.exc = "ValueError" \/ r.v < 0 THEN InvalidInput
      ELSE IF r.v >= MAX_DIGITS THEN PrecisionLimitExceeded
      ELSE "none"

\* lines 9-18: the exception calculate_pi(x) raises before it calculates
\* ("none": it goes on with int(x))
ValidationError(x) ==
  LET r == PyInt(x)
  IN  IF r.exc = "TypeError" THEN "TypeError"
      ELSE IF r.exc = "ValueError" \/ r.v < 0 THEN InvalidInput
      ELSE IF r.v > MAX_DIGITS THEN PrecisionLimitExceeded
      ELSE "none"

(***************************************************************************)
(* The statements of the calculation, at the precision prec of the context *)
(***************************************************************************)
\* InitB with a minus for the division: Decimal(1) - Decimal(2).sqrt()
InitBMinus(prec) == DecSub(DecFromInt(1), DecSqrt(DecFromInt(2), prec), prec)

\* line 30: Decimal(1) / Decimal(2).sqrt()
InitB(prec) == DecDiv(DecFromInt(1), DecSqrt(DecFromInt(2), prec), prec)

\* line 31: Decimal(1) / Decimal(4)
InitT(prec) == DecDiv(DecFromInt(1), DecFromInt(4), prec)

\* line 38: (a_n + b_n) / 2
ANext(a, b, prec) == DecDiv(DecAdd(a, b, prec), DecFromInt(2), prec)

\* line 39: the operand of sqrt, a_n * b_n
SqrtOperand(a, b, prec) == DecMul(a, b, prec)

\* line 39: (a_n * b_n).sqrt()
BNext(a, b, prec) == DecSqrt(SqrtOperand(a, b, prec), prec)

\* line 40: t_n - p_n * (a_n - a_next)**2
TNext(t, p, a, an, prec) ==
  DecSub(t, DecMul(p, DecSquare(DecSub(a, an, prec), prec), prec), prec)

\* line 41: 2 * p_n
PNext(p, prec) == DecMul(DecFromInt(2), p, prec)

\* Converged as a test of a_next against b_next
ConvergedAB(a, an, b, bn) == DecEq(an, bn)

\* Converged with both equalities required
ConvergedBoth(a, an, b, bn) == DecEq(a, an) /\ DecEq(b, bn)

\* line 45: a_n == a_next or b_n == b_next
Converged(a, an, b, bn) == DecEq(a, an) \/ DecEq(b, bn)

\* line 51: the divisor, 4 * t_n
PiDivisor(t, prec) == DecMul(DecFromInt(4), t, prec)

\* line 51: (a_n + b_n)**2 / (4 * t_n)
PiValue(a, b, t, prec) ==
  DecDiv(DecSquare(DecAdd(a, b, prec), prec), PiDivisor(t, prec), prec)

(***************************************************************************)
(* The program: threads that call calculate_pi.  decimal.getcontext()      *)
(* returns the context of the calling thread; each thread has its own,     *)
(* which lives on between that thread's calls.                             *)
(***************************************************************************)
Threads == {"main", "worker"}

\* getcontext with one context for the whole process
SharedContext(t) == "main"

\* the context decimal.getcontext() returns in thread t
getcontext(t) == t

\* the arguments the callers pass
IntInputs == (-1..MaxN) \cup {MAX_DIGITS, MAX_DIGITS + 1}

Inputs ==
  {IntArg(i) : i \in IntInputs}
    \cup {FloatArg(37, 10), FloatArg(-5, 10), FloatArg(-17, 10)}
    \cup {StrArg(<<"2">>), StrArg(<<"3", ".", "7">>), StrArg(<<"-", "1">>),
          StrArg(<<"a", "b", "c">>), StrArg(<<>>)}
    \cup {NoneArg}

VARIABLES
  pc,          \* the line each thread is about to execute
  budget,      \* the calls each thread may still make
  inputs,      \* the arguments the callers pass in this run
  ctxprec,     \* decimal context -> its prec
  arg,         \* the argument of the call as the caller passed it
  n_digits,    \* the local n_digits (the argument, then int(n_digits))
  calculation_precision,
  a_n, b_n, t_n, p_n,
  a_next, b_next, t_next, p_next,
  pi_value,
  result,      \* the value returned
  exc,         \* the exception the call raised ("none")
  used,        \* the precisions the arithmetic of the call was done at
  iters,       \* the passes of the loop the call has started
  outputs      \* <<n_digits, str(result)>> of every call that returned

locals == <<a_n, b_n, t_n, p_n, a_next, b_next, t_next, p_next, pi_value>>

vars == <<pc, budget, inputs, ctxprec, arg, n_digits, calculation_precision,
          a_n, b_n, t_n, p_n, a_next, b_next, t_next, p_next, pi_value,
          result, exc, used, iters, outputs>>

\* the precision arithmetic in thread t is done at
Prec(t) == ctxprec[getcontext(t)]

\* line 24: calculation_precision = n_digits + 5
CalculationPrecision(n) == n + GuardDigits

\* SetPrec that sets the precision of a context only while it is the default
SetPrecOnce(ctx, c, p) == IF ctx[c] = DefaultPrec THEN [ctx EXCEPT ![c] = p] ELSE ctx

\* line 25: decimal.getcontext().prec = calculation_precision, in context c
SetPrec(ctx, c, p) == [ctx EXCEPT ![c] = p]

\* AfterTest with the assignment of line 48 made before the break
AfterTestAssign(converged, cur, nxt) == nxt

\* lines 45-48: the value a loop variable holds after the test: unchanged on
\* break, the next value otherwise
AfterTest(converged, cur, nxt) == IF converged THEN cur ELSE nxt

InitCommon ==
  /\ pc = [t \in Threads |-> "idle"]
  /\ ctxprec = [c \in {getcontext(t) : t \in Threads} |-> DefaultPrec]
  /\ arg = [t \in Threads |-> NoArg]
  /\ n_digits = [t \in Threads |-> NoArg]
  /\ calculation_precision = [t \in Threads |-> 0]
  /\ a_n = [t \in Threads |-> NoDec]
  /\ b_n = [t \in Threads |-> NoDec]
  /\ t_n = [t \in Threads |-> NoDec]
  /\ p_n = [t \in Threads |-> NoDec]
  /\ a_next = [t \in Threads |-> NoDec]
  /\ b_next = [t \in Threads |-> NoDec]
  /\ t_next = [t \in Threads |-> NoDec]
  /\ p_next = [t \in Threads |-> NoDec]
  /\ pi_value = [t \in Threads |-> NoDec]
  /\ result = [t \in Threads |-> NoDec]
  /\ exc = [t \in Threads |-> "none"]
  /\ used = [t \in Threads |-> {}]
  /\ iters = [t \in Threads |-> 0]
  /\ outputs = {}

\* the read loop of __main__ (lines 63-78): one thread, call after call
Init ==
  /\ InitCommon
  /\ budget = [t \in Threads |-> IF t = "main" THEN MaxCalls ELSE 0]
  /\ inputs = Inputs

\* two threads, each calculating once, with valid digit counts
ConcInit ==
  /\ InitCommon
  /\ budget = [t \in Threads |-> 1]
  /\ inputs = {IntArg(i) : i \in 0..MaxN}

\* one thread, call after call, for the digit counts 761 and 762: the
\* decimals 762..767 of pi are 999999
NinesInit ==
  /\ InitCommon
  /\ budget = [t \in Threads |-> IF t = "main" THEN 2 ELSE 0]
  /\ inputs = {IntArg(761), IntArg(762)}

\* the call calculate_pi(x) is made in thread t
Call(t) ==
  /\ pc[t] = "idle"
  /\ budget[t] > 0
  /\ \E x \in inputs :
       /\ arg' = [arg EXCEPT ![t] = x]
       /\ n_digits' = [n_digits EXCEPT ![t] = x]
  /\ budget' = [budget EXCEPT ![t] = @ - 1]
  /\ pc' = [pc EXCEPT ![t] = "L9"]
  /\ UNCHANGED <<inputs, ctxprec, calculation_precision, locals, result, exc,
                 used, iters, outputs>>

\* lines 9-18: int(n_digits), the sign check and the MAX_DIGITS check
Validate(t) ==
  /\ pc[t] = "L9"
  /\ LET e == ValidationError(n_digits[t])
     IN  IF e = "none"
         THEN /\ n_digits' = [n_digits EXCEPT ![t] = IntArg(PyInt(@).v)]
              /\ pc' = [pc EXCEPT ![t] = "L24"]
              /\ exc' = exc
         ELSE /\ exc' = [exc EXCEPT ![t] = e]
              /\ pc' = [pc EXCEPT ![t] = "raised"]
              /\ n_digits' = n_digits
  /\ UNCHANGED <<budget, inputs, ctxprec, arg, calculation_precision, locals,
                 result, used, iters, outputs>>

\* lines 24-25: calculation_precision = n_digits + 5;
\* decimal.getcontext().prec = calculation_precision
\* (the model does not run the calculation for MAX_DIGITS digits)
SetPrecision(t) ==
  /\ pc[t] = "L24"
  /\ n_digits[t].num < MAX_DIGITS
  /\ calculation_precision' =
       [calculation_precision EXCEPT ![t] = CalculationPrecision(n_digits[t].num)]
  /\ ctxprec' = SetPrec(ctxprec, getcontext(t),
                        CalculationPrecision(n_digits[t].num))
  /\ pc' = [pc EXCEPT ![t] = "L29"]
  /\ UNCHANGED <<budget, inputs, arg, n_digits, locals, result, exc, used,
                 iters, outputs>>

\* lines 29-32: the initial a_n, b_n, t_n, p_n
InitState(t) ==
  /\ pc[t] = "L29"
  /\ a_n' = [a_n EXCEPT ![t] = DecFromInt(1)]
  /\ b_n' = [b_n EXCEPT ![t] = InitB(Prec(t))]
  /\ t_n' = [t_n EXCEPT ![t] = InitT(Prec(t))]
  /\ p_n' = [p_n EXCEPT ![t] = DecFromInt(1)]
  /\ used' = [used EXCEPT ![t] = @ \cup {Prec(t)}]
  /\ pc' = [pc EXCEPT ![t] = "L38"]
  /\ UNCHANGED <<budget, inputs, ctxprec, arg, n_digits, calculation_precision,
                 a_next, b_next, t_next, p_next, pi_value, result, exc, iters,
                 outputs>>

\* line 38: a_next = (a_n + b_n) / 2
StepA(t) ==
  /\ pc[t] = "L38"
  /\ a_next' = [a_next EXCEPT ![t] = ANext(a_n[t], b_n[t], Prec(t))]
  /\ used' = [used EXCEPT ![t] = @ \cup {Prec(t)}]
  /\ iters' = [iters EXCEPT ![t] = @ + 1]
  /\ pc' = [pc EXCEPT ![t] = "L39"]
  /\ UNCHANGED <<budget, inputs, ctxprec, arg, n_digits, calculation_precision,
                 a_n, b_n, t_n, p_n, b_next, t_next, p_next, pi_value, result,
                 exc, outputs>>

\* line 39: b_next = (a_n * b_n).sqrt(); sqrt of a negative operand raises
\* decimal.InvalidOperation
StepB(t) ==
  /\ pc[t] = "L39"
  /\ IF IsNegativeD(SqrtOperand(a_n[t], b_n[t], Prec(t)))
     THEN /\ exc' = [exc EXCEPT ![t] = "InvalidOperation"]
          /\ pc' = [pc EXCEPT ![t] = "raised"]
          /\ b_next' = b_next
     ELSE /\ b_next' = [b_next EXCEPT ![t] = BNext(a_n[t], b_n[t], Prec(t))]
          /\ pc' = [pc EXCEPT ![t] = "L40"]
          /\ exc' = exc
  /\ used' = [used EXCEPT ![t] = @ \cup {Prec(t)}]
  /\ UNCHANGED <<budget, inputs, ctxprec, arg, n_digits, calculation_precision,
                 a_n, b_n, t_n, p_n, a_next, t_next, p_next, pi_value, result,
                 iters, outputs>>

\* line 40: t_next = t_n - p_n * (a_n - a_next)**2
StepT(t) ==
  /\ pc[t] = "L40"
  /\ t_next' = [t_next EXCEPT ![t] =
                  TNext(t_n[t], p_n[t], a_n[t], a_next[t], Prec(t))]
  /\ used' = [used EXCEPT ![t] = @ \cup {Prec(t)}]
  /\ pc' = [pc EXCEPT ![t] = "L41"]
  /\ UNCHANGED <<budget, inputs, ctxprec, arg, n_digits, calculation_precision,
                 a_n, b_n, t_n, p_n, a_next, b_next, p_next, pi_value, result,
                 exc, iters, outputs>>

\* line 41: p_next = 2 * p_n
StepP(t) ==
  /\ pc[t] = "L41"
  /\ p_next' = [p_next EXCEPT ![t] = PNext(p_n[t], Prec(t))]
  /\ used' = [used EXCEPT ![t] = @ \cup {Prec(t)}]
  /\ pc' = [pc EXCEPT ![t] = "L45"]
  /\ UNCHANGED <<budget, inputs, ctxprec, arg, n_digits, calculation_precision,
                 a_n, b_n, t_n, p_n, a_next, b_next, t_next, pi_value, result,
                 exc, iters, outputs>>

\* lines 45-48: break when a_n == a_next or b_n == b_next; otherwise
\* a_n, b_n, t_n, p_n = a_next, b_next, t_next, p_next and the loop goes on
Test(t) ==
  /\ pc[t] = "L45"
  /\ LET c == Converged(a_n[t], a_next[t], b_n[t], b_next[t])
     IN  /\ a_n' = [a_n EXCEPT ![t] = AfterTest(c, @, a_next[t])]
         /\ b_n' = [b_n EXCEPT ![t] = AfterTest(c, @, b_next[t])]
         /\ t_n' = [t_n EXCEPT ![t] = AfterTest(c, @, t_next[t])]
         /\ p_n' = [p_n EXCEPT ![t] = AfterTest(c, @, p_next[t])]
         /\ pc' = [pc EXCEPT ![t] = IF c THEN "L51" ELSE "L38"]
  /\ UNCHANGED <<budget, inputs, ctxprec, arg, n_digits, calculation_precision,
                 a_next, b_next, t_next, p_next, pi_value, result, exc, used,
                 iters, outputs>>

\* line 51: pi_value = (a_n + b_n)**2 / (4 * t_n); a zero divisor raises
\* decimal.DivisionByZero
Final(t) ==
  /\ pc[t] = "L51"
  /\ IF IsZeroD(PiDivisor(t_n[t], Prec(t)))
     THEN /\ exc' = [exc EXCEPT ![t] = "DivisionByZero"]
          /\ pc' = [pc EXCEPT ![t] = "raised"]
          /\ pi_value' = pi_value
     ELSE /\ pi_value' = [pi_value EXCEPT ![t] =
                            PiValue(a_n[t], b_n[t], t_n[t], Prec(t))]
          /\ pc' = [pc EXCEPT ![t] = "L57"]
          /\ exc' = exc
  /\ used' = [used EXCEPT ![t] = @ \cup {Prec(t)}]
  /\ UNCHANGED <<budget, inputs, ctxprec, arg, n_digits, calculation_precision,
                 a_n, b_n, t_n, p_n, a_next, b_next, t_next, p_next, result,
                 iters, outputs>>

\* lines 57-58: return pi_value.quantize(Decimal('1e-' + str(n_digits)),
\* rounding=decimal.ROUND_DOWN)
Return(t) ==
  /\ pc[t] = "L57"
  /\ IF QuantizeRaises(pi_value[t], n_digits[t].num, Prec(t))
     THEN /\ exc' = [exc EXCEPT ![t] = "InvalidOperation"]
          /\ pc' = [pc EXCEPT ![t] = "raised"]
          /\ UNCHANGED <<result, outputs>>
     ELSE /\ result' = [result EXCEPT ![t] = Quantize(pi_value[t], n_digits[t].num)]
          /\ outputs' = outputs \cup
               {<<n_digits[t].num, DecStr(Quantize(pi_value[t], n_digits[t].num))>>}
          /\ pc' = [pc EXCEPT ![t] = "done"]
          /\ exc' = exc
  /\ UNCHANGED <<budget, inputs, ctxprec, arg, n_digits, calculation_precision,
                 locals, used, iters>>

\* the caller has the result or the exception (lines 70-78); the locals of the
\* call are gone, the thread's context stays as the call left it
Finish(t) ==
  /\ pc[t] \in {"done", "raised"}
  /\ pc' = [pc EXCEPT ![t] = "idle"]
  /\ arg' = [arg EXCEPT ![t] = NoArg]
  /\ n_digits' = [n_digits EXCEPT ![t] = NoArg]
  /\ calculation_precision' = [calculation_precision EXCEPT ![t] = 0]
  /\ a_n' = [a_n EXCEPT ![t] = NoDec]
  /\ b_n' = [b_n EXCEPT ![t] = NoDec]
  /\ t_n' = [t_n EXCEPT ![t] = NoDec]
  /\ p_n' = [p_n EXCEPT ![t] = NoDec]
  /\ a_next' = [a_next EXCEPT ![t] = NoDec]
  /\ b_next' = [b_next EXCEPT ![t] = NoDec]
  /\ t_next' = [t_next EXCEPT ![t] = NoDec]
  /\ p_next' = [p_next EXCEPT ![t] = NoDec]
  /\ pi_value' = [pi_value EXCEPT ![t] = NoDec]
  /\ result' = [result EXCEPT ![t] = NoDec]
  /\ exc' = [exc EXCEPT ![t] = "none"]
  /\ used' = [used EXCEPT ![t] = {}]
  /\ iters' = [iters EXCEPT ![t] = 0]
  /\ UNCHANGED <<budget, inputs, ctxprec, outputs>>

Next ==
  \E t \in Threads :
    \/ Call(t)
    \/ Validate(t)
    \/ SetPrecision(t)
    \/ InitState(t)
    \/ StepA(t)
    \/ StepB(t)
    \/ StepT(t)
    \/ StepP(t)
    \/ Test(t)
    \/ Final(t)
    \/ Return(t)
    \/ Finish(t)

Spec == Init /\ [][Next]_vars

ConcSpec == ConcInit /\ [][Next]_vars

NinesSpec == NinesInit /\ [][Next]_vars

(***************************************************************************)
(* calculate_pi(n) run on its own, from line 24 on, as a function of n:    *)
(* what one uninterrupted call returns.                                    *)
(***************************************************************************)
\* lines 37-48: <<a_n, b_n, t_n, passes>> when the loop is left
RECURSIVE Loop(_, _, _, _, _, _)
Loop(a, b, t, p, prec, k) ==
  Only({ IF Converged(a, an, b, bn) THEN <<a, b, t, k>>
         ELSE Only({ Loop(an, bn, tn, pn, prec, k + 1) :
                       tn \in {TNext(t, p, a, an, prec)},
                       pn \in {PNext(p, prec)} }) :
           an \in {ANext(a, b, prec)}, bn \in {BNext(a, b, prec)} })

LoopAlone(n) ==
  Only({ Loop(DecFromInt(1), b, t, DecFromInt(1), CalculationPrecision(n), 1) :
           b \in {InitB(CalculationPrecision(n))},
           t \in {InitT(CalculationPrecision(n))} })

RunAlone(n) ==
  Only({ Quantize(v, n) :
           v \in { PiValue(s[1], s[2], s[3], CalculationPrecision(n)) :
                     s \in {LoopAlone(n)} } })


\* what calculate_pi(n) returns when nothing else runs, for every n of the model
AloneResults == { <<n, RunAlone(n)>> : n \in 0..MaxN }

(***************************************************************************)
(* Reference values and shorthands of the properties.                      *)
(***************************************************************************)
\* the first 780 decimals of pi (3.14159265358979...)
PiDecimals ==
  <<
    "1", "4", "1", "5", "9", "2", "6", "5", "3", "5", "8", "9", "7", "9", "3", "2", "3", "8", "4", "6",
    "2", "6", "4", "3", "3", "8", "3", "2", "7", "9", "5", "0", "2", "8", "8", "4", "1", "9", "7", "1",
    "6", "9", "3", "9", "9", "3", "7", "5", "1", "0", "5", "8", "2", "0", "9", "7", "4", "9", "4", "4",
    "5", "9", "2", "3", "0", "7", "8", "1", "6", "4", "0", "6", "2", "8", "6", "2", "0", "8", "9", "9",
    "8", "6", "2", "8", "0", "3", "4", "8", "2", "5", "3", "4", "2", "1", "1", "7", "0", "6", "7", "9",
    "8", "2", "1", "4", "8", "0", "8", "6", "5", "1", "3", "2", "8", "2", "3", "0", "6", "6", "4", "7",
    "0", "9", "3", "8", "4", "4", "6", "0", "9", "5", "5", "0", "5", "8", "2", "2", "3", "1", "7", "2",
    "5", "3", "5", "9", "4", "0", "8", "1", "2", "8", "4", "8", "1", "1", "1", "7", "4", "5", "0", "2",
    "8", "4", "1", "0", "2", "7", "0", "1", "9", "3", "8", "5", "2", "1", "1", "0", "5", "5", "5", "9",
    "6", "4", "4", "6", "2", "2", "9", "4", "8", "9", "5", "4", "9", "3", "0", "3", "8", "1", "9", "6",
    "4", "4", "2", "8", "8", "1", "0", "9", "7", "5", "6", "6", "5", "9", "3", "3", "4", "4", "6", "1",
    "2", "8", "4", "7", "5", "6", "4", "8", "2", "3", "3", "7", "8", "6", "7", "8", "3", "1", "6", "5",
    "2", "7", "1", "2", "0", "1", "9", "0", "9", "1", "4", "5", "6", "4", "8", "5", "6", "6", "9", "2",
    "3", "4", "6", "0", "3", "4", "8", "6", "1", "0", "4", "5", "4", "3", "2", "6", "6", "4", "8", "2",
    "1", "3", "3", "9", "3", "6", "0", "7", "2", "6", "0", "2", "4", "9", "1", "4", "1", "2", "7", "3",
    "7", "2", "4", "5", "8", "7", "0", "0", "6", "6", "0", "6", "3", "1", "5", "5", "8", "8", "1", "7",
    "4", "8", "8", "1", "5", "2", "0", "9", "2", "0", "9", "6", "2", "8", "2", "9", "2", "5", "4", "0",
    "9", "1", "7", "1", "5", "3", "6", "4", "3", "6", "7", "8", "9", "2", "5", "9", "0", "3", "6", "0",
    "0", "1", "1", "3", "3", "0", "5", "3", "0", "5", "4", "8", "8", "2", "0", "4", "6", "6", "5", "2",
    "1", "3", "8", "4", "1", "4", "6", "9", "5", "1", "9", "4", "1", "5", "1", "1", "6", "0", "9", "4",
    "3", "3", "0", "5", "7", "2", "7", "0", "3", "6", "5", "7", "5", "9", "5", "9", "1", "9", "5", "3",
    "0", "9", "2", "1", "8", "6", "1", "1", "7", "3", "8", "1", "9", "3", "2", "6", "1", "1", "7", "9",
    "3", "1", "0", "5", "1", "1", "8", "5", "4", "8", "0", "7", "4", "4", "6", "2", "3", "7", "9", "9",
    "6", "2", "7", "4", "9", "5", "6", "7", "3", "5", "1", "8", "8", "5", "7", "5", "2", "7", "2", "4",
    "8", "9", "1", "2", "2", "7", "9", "3", "8", "1", "8", "3", "0", "1", "1", "9", "4", "9", "1", "2",
    "9", "8", "3", "3", "6", "7", "3", "3", "6", "2", "4", "4", "0", "6", "5", "6", "6", "4", "3", "0",
    "8", "6", "0", "2", "1", "3", "9", "4", "9", "4", "6", "3", "9", "5", "2", "2", "4", "7", "3", "7",
    "1", "9", "0", "7", "0", "2", "1", "7", "9", "8", "6", "0", "9", "4", "3", "7", "0", "2", "7", "7",
    "0", "5", "3", "9", "2", "1", "7", "1", "7", "6", "2", "9", "3", "1", "7", "6", "7", "5", "2", "3",
    "8", "4", "6", "7", "4", "8", "1", "8", "4", "6", "7", "6", "6", "9", "4", "0", "5", "1", "3", "2",
    "0", "0", "0", "5", "6", "8", "1", "2", "7", "1", "4", "5", "2", "6", "3", "5", "6", "0", "8", "2",
    "7", "7", "8", "5", "7", "7", "1", "3", "4", "2", "7", "5", "7", "7", "8", "9", "6", "0", "9", "1",
    "7", "3", "6", "3", "7", "1", "7", "8", "7", "2", "1", "4", "6", "8", "4", "4", "0", "9", "0", "1",
    "2", "2", "4", "9", "5", "3", "4", "3", "0", "1", "4", "6", "5", "4", "9", "5", "8", "5", "3", "7",
    "1", "0", "5", "0", "7", "9", "2", "2", "7", "9", "6", "8", "9", "2", "5", "8", "9", "2", "3", "5",
    "4", "2", "0", "1", "9", "9", "5", "6", "1", "1", "2", "1", "2", "9", "0", "2", "1", "9", "6", "0",
    "8", "6", "4", "0", "3", "4", "4", "1", "8", "1", "5", "9", "8", "1", "3", "6", "2", "9", "7", "7",
    "4", "7", "7", "1", "3", "0", "9", "9", "6", "0", "5", "1", "8", "7", "0", "7", "2", "1", "1", "3",
    "4", "9", "9", "9", "9", "9", "9", "8", "3", "7", "2", "9", "7", "8", "0", "4", "9", "9", "5", "1"
  >>

\* pi truncated to n decimal places, as a decimal string
PiString(n) ==
  IF n = 0 THEN <<"3">> ELSE <<"3", ".">> \o SubSeq(PiDecimals, 1, n)

LoopLines == {"L38", "L39", "L40", "L41", "L45"}

\* the least k with 2^k >= p
RECURSIVE CeilLog2(_)
CeilLog2(p) == IF p <= 1 THEN 0 ELSE 1 + CeilLog2((p + 1) \div 2)

\* the iteration cap of the working precision p
IterationCap(p) == CeilLog2(p) + 1

\* the value of a float argument is an integer
IsIntegral(x) == x.num % x.den = 0

\* the argument is a non-negative integer
IsNonNegInteger(x) ==
  \/ x.kind = "int" /\ x.num >= 0
  \/ x.kind = "float" /\ IsIntegral(x) /\ x.num >= 0
  \/ x.kind = "str" /\ IsDigits(x.text)

\* the call of thread t is past the validation of lines 9-18
Validated(t) == pc[t] \notin {"idle", "L9"}

(***************************************************************************)
(* Properties.                                                             *)
(***************************************************************************)
\* C1: a call that returns for n digits returns pi truncated (not rounded)
\* to n decimal places: "3" for n = 0, otherwise "3." and the first n
\* decimals of pi; every string returned so far is of that form.
C1_DigitsTruncated ==
  /\ \A t \in Threads :
       pc[t] = "done" => DecStr(result[t]) = PiString(n_digits[t].num)
  /\ \A o \in outputs : o[2] = PiString(o[1])

\* C2: for every n >= 0, the string returned for n + 1 digits with its last
\* character removed is the string returned for n digits.
C2_PrefixMonotone ==
  \A o1 \in outputs : \A o2 \in outputs :
    o2[1] = o1[1] + 1 => SubSeq(o2[2], 1, Len(o2[2]) - 1) = o1[2]

\* C3: a call whose argument is not a non-negative integer (a
\* negative number, a non-integer such as 3.7, a non-numeric value) raises
\* InvalidInput and returns nothing.
C3_NonIntegerRejected ==
  \A t \in Threads :
    (Validated(t) /\ ~IsNonNegInteger(arg[t])) =>
      (pc[t] = "raised" /\ exc[t] = InvalidInput)

C5_Deterministic ==
  /\ \A t \in Threads :
       pc[t] = "done" => <<n_digits[t].num, result[t]>> \in AloneResults
  /\ \A o1 \in outputs : \A o2 \in outputs : o1[1] = o2[1] => o1[2] = o2[2]

\* a call has returned after an earlier call for more digits had returned
C5_Witness ==
  \E t \in Threads :
    /\ pc[t] = "done"
    /\ budget[t] = 0
    /\ \E o \in outputs : o[1] > n_digits[t].num

\* C6: when the calculations of two threads interleave statement by
\* statement, every arithmetic statement of a call for n digits is done at
\* that call's own precision n + 5, the context the call reads its precision
\* from holds that precision from line 25 on, and the call returns what
\* calculate_pi(n) returns on its own.
C6_OwnPrecision ==
  \A t \in Threads :
    /\ used[t] \subseteq {calculation_precision[t]}
    /\ pc[t] \in {"L29", "L51", "L57"} \cup LoopLines =>
         /\ calculation_precision[t] = CalculationPrecision(n_digits[t].num)
         /\ Prec(t) = calculation_precision[t]
    /\ pc[t] = "done" => <<n_digits[t].num, result[t]>> \in AloneResults

\* both threads are inside the loop, past its first pass, calculating for
\* different numbers of digits
C6_Witness ==
  /\ \A t \in Threads : pc[t] \in LoopLines /\ iters[t] >= 2
  /\ n_digits["main"].num /= n_digits["worker"].num

C8_FromNextValues ==
  \A t \in Threads :
    pc[t] = "L57" =>
      /\ DecEq(a_n[t], a_next[t])
      /\ DecEq(b_n[t], b_next[t])
      /\ DecEq(t_n[t], t_next[t])
      /\ pi_value[t] = PiValue(a_next[t], b_next[t], t_next[t], Prec(t))

\* C8: line 51 computes pi from the a, b, t held before the final pass of
\* the loop, the values that pass computed a', b', t' from; the a', b', t'
\* of the final pass are not assigned.
C8_FromCurrentValues ==
  \A t \in Threads :
    pc[t] = "L57" =>
      /\ pi_value[t] = PiValue(a_n[t], b_n[t], t_n[t], Prec(t))
      /\ a_next[t] = ANext(a_n[t], b_n[t], Prec(t))
      /\ b_next[t] = BNext(a_n[t], b_n[t], Prec(t))
      /\ t_next[t] = TNext(t_n[t], p_n[t], a_n[t], a_next[t], Prec(t))
      /\ p_next[t] = PNext(p_n[t], Prec(t))

\* pi has been computed after a final pass whose b' differs from b
C8_Witness ==
  \E t \in Threads :
    /\ pc[t] = "L57"
    /\ ~DecEq(b_n[t], b_next[t])
    /\ pi_value[t] /= NoDec

\* C9: no call raises for a square root of a negative number or a division
\* by zero: the operand of every square root is not negative, the divisor
\* of line 51 is not zero, and neither exception is ever raised.
C9_NoArithmeticError ==
  \A t \in Threads :
    /\ exc[t] \notin {"InvalidOperation", "DivisionByZero"}
    /\ pc[t] = "L39" => ~IsNegativeD(SqrtOperand(a_n[t], b_n[t], Prec(t)))
    /\ pc[t] = "L51" => ~IsZeroD(PiDivisor(t_n[t], Prec(t)))

\* a call has taken the square root of its third pass and divided at line 51
C9_Witness ==
  \E t \in Threads :
    /\ pc[t] = "L57"
    /\ iters[t] >= 3
    /\ pi_value[t] /= NoDec

\* C10: at the test of a pass the next values are those of the recurrence;
\* the loop is left, a, b, t, p unchanged, when a == a' or b == b', and
\* otherwise the state becomes (a', b', t', 2p) and the next pass starts.
C10_StopAtFirstEquality ==
  [][\A t \in Threads :
       (pc[t] = "L45" /\ pc'[t] /= "L45") =>
         /\ a_next[t] = ANext(a_n[t], b_n[t], Prec(t))
         /\ b_next[t] = BNext(a_n[t], b_n[t], Prec(t))
         /\ t_next[t] = TNext(t_n[t], p_n[t], a_n[t], a_next[t], Prec(t))
         /\ IF DecEq(a_n[t], a_next[t]) \/ DecEq(b_n[t], b_next[t])
            THEN /\ pc'[t] = "L51"
                 /\ <<a_n'[t], b_n'[t], t_n'[t], p_n'[t]>>
                      = <<a_n[t], b_n[t], t_n[t], p_n[t]>>
            ELSE /\ pc'[t] = "L38"
                 /\ <<a_n'[t], b_n'[t], t_n'[t]>>
                      = <<a_next[t], b_next[t], t_next[t]>>
                 /\ DecEq(p_n'[t], DecAdd(p_n[t], p_n[t], Prec(t)))]_vars

\* the loop has been left on a == a' alone, b' differing from b
C10_Witness ==
  \E t \in Threads :
    /\ pc[t] = "L51"
    /\ DecEq(a_n[t], a_next[t])
    /\ ~DecEq(b_n[t], b_next[t])


====
